---- MODULE Spec2Model ----
(***************************************************************************)
(* State-machine model of the defi_trust_fund program (src/src/lib.rs).    *)
(*                                                                         *)
(* The program keeps u64 amounts and computes fees, scores and yields in   *)
(* f64.  TLC's integers are 32 bits wide, so u64 values that may be large  *)
(* are carried as little-endian sequences of 12-bit limbs (BN...) and f64  *)
(* values as a 53-bit mantissa with a binary exponent (F64...), rounded to *)
(* nearest-even as IEEE-754 does.                                          *)
(***************************************************************************)
EXTENDS Integers, Sequences, FiniteSets, TLC

-----------------------------------------------------------------------------
(* Unsigned integers of arbitrary size: <<l1, ..., ln>> is                 *)
(* l1 + l2*Base + ... + ln*Base^(n-1), with ln # 0; zero is <<>>.          *)

Base == 2^12

Max(a, b) == IF a >= b THEN a ELSE b

Min(a, b) == IF a <= b THEN a ELSE b

Limb(a, i) == IF i >= 1 /\ i <= Len(a) THEN a[i] ELSE 0

RECURSIVE BNStrip(_)
BNStrip(s) ==
    IF s = <<>> THEN s
    ELSE IF s[Len(s)] = 0 THEN BNStrip(SubSeq(s, 1, Len(s) - 1)) ELSE s

RECURSIVE BN(_)
BN(n) == IF n = 0 THEN <<>> ELSE <<n % Base>> \o BN(n \div Base)

RECURSIVE BNToInt(_)
BNToInt(a) == IF a = <<>> THEN 0 ELSE a[1] + Base * BNToInt(Tail(a))

RECURSIVE BNCarry(_, _)
BNCarry(cols, c) ==
    IF cols = <<>> THEN BN(c)
    ELSE LET v == cols[1] + c
         IN  <<v % Base>> \o BNCarry(Tail(cols), v \div Base)

BNAdd(a, b) ==
    BNStrip(BNCarry([i \in 1..Max(Len(a), Len(b)) |-> Limb(a, i) + Limb(b, i)], 0))

RECURSIVE BNBorrow(_, _, _, _)
BNBorrow(a, b, i, brw) ==
    IF i > Len(a) THEN <<>>
    ELSE LET v == a[i] - Limb(b, i) - brw
         IN  IF v < 0 THEN <<v + Base>> \o BNBorrow(a, b, i + 1, 1)
             ELSE <<v>> \o BNBorrow(a, b, i + 1, 0)

\* a - b, for a >= b
BNSub(a, b) == BNStrip(BNBorrow(a, b, 1, 0))

RECURSIVE BNCmpFrom(_, _, _)
BNCmpFrom(a, b, i) ==
    IF i = 0 THEN 0
    ELSE IF a[i] < b[i] THEN -1
    ELSE IF a[i] > b[i] THEN 1
    ELSE BNCmpFrom(a, b, i - 1)

\* -1, 0, 1 as a < b, a = b, a > b
BNCmp(a, b) ==
    IF Len(a) < Len(b) THEN -1
    ELSE IF Len(a) > Len(b) THEN 1
    ELSE BNCmpFrom(a, b, Len(a))

BNLess(a, b) == BNCmp(a, b) = -1

BNLeq(a, b) == BNCmp(a, b) <= 0

RECURSIVE BNColumn(_, _, _, _)
BNColumn(a, b, k, i) ==
    IF i > Len(a) \/ i > k THEN 0
    ELSE a[i] * Limb(b, k + 1 - i) + BNColumn(a, b, k, i + 1)

BNMul(a, b) ==
    IF a = <<>> \/ b = <<>> THEN <<>>
    ELSE BNStrip(BNCarry([k \in 1..(Len(a) + Len(b) - 1) |-> BNColumn(a, b, k, 1)], 0))

\* a * 2^k
BNShl(a, k) ==
    IF a = <<>> THEN <<>>
    ELSE LET q == k \div 12
             r == k % 12
         IN  [i \in 1..q |-> 0] \o BNStrip(BNCarry([i \in 1..Len(a) |-> a[i] * 2^r], 0))

\* floor(a / 2^k)
BNShr(a, k) ==
    LET q == k \div 12
        r == k % 12
    IN  IF q >= Len(a) THEN <<>>
        ELSE BNStrip([i \in 1..(Len(a) - q) |->
                 (a[i + q] \div 2^r) + (Limb(a, i + q + 1) % 2^r) * 2^(12 - r)])

\* bit k of a (bit 0 is the lowest)
BNBit(a, k) == (Limb(a, (k \div 12) + 1) \div 2^(k % 12)) % 2

\* a mod 2^k = 0
BNLowZero(a, k) ==
    /\ \A i \in 1..Min(k \div 12, Len(a)) : a[i] = 0
    /\ Limb(a, (k \div 12) + 1) % 2^(k % 12) = 0

RECURSIVE IntBitLen(_)
IntBitLen(n) == IF n = 0 THEN 0 ELSE 1 + IntBitLen(n \div 2)

BNBitLen(a) == IF a = <<>> THEN 0 ELSE 12 * (Len(a) - 1) + IntBitLen(a[Len(a)])

RECURSIVE BNTrailingZeros(_)
BNTrailingZeros(a) ==
    IF a = <<>> THEN 0
    ELSE IF a[1] = 0 THEN 12 + BNTrailingZeros(Tail(a))
    ELSE IF a[1] % 2 = 0 THEN 1 + BNTrailingZeros(<<a[1] \div 2>>)
    ELSE 0

RECURSIVE BNDivSmallFrom(_, _, _, _)
BNDivSmallFrom(a, d, i, r) ==
    IF i = 0 THEN [q |-> <<>>, r |-> r]
    ELSE LET v    == r * Base + a[i]
             rest == BNDivSmallFrom(a, d, i - 1, v % d)
         IN  [q |-> rest.q \o <<v \div d>>, r |-> rest.r]

\* quotient and remainder of a by the small integer d, 0 < d < 2^19
BNDivSmall(a, d) ==
    LET res == BNDivSmallFrom(a, d, Len(a), 0)
    IN  [q |-> BNStrip(res.q), r |-> res.r]

U64Max == BNSub(BNShl(<<1>>, 64), <<1>>)

-----------------------------------------------------------------------------
(* Non-negative f64 values: [m, e] is m * 2^e with 2^52 <= m < 2^53, and   *)
(* zero is [m |-> <<>>, e |-> 0].  The values the program computes are far *)
(* from the subnormal and the infinite range, so the exponent is unbounded.*)

F64Zero == [m |-> <<>>, e |-> 0]

\* The f64 nearest to (N + f) * 2^e, ties to even, where 0 <= f < 1 and
\* f # 0 exactly when sticky (a sticky N has more than 53 bits).
F64Round(N, e, sticky) ==
    LET bl == BNBitLen(N)
    IN  IF N = <<>> THEN F64Zero
        ELSE IF bl <= 53 THEN [m |-> BNShl(N, 53 - bl), e |-> e - (53 - bl)]
        ELSE LET s    == bl - 53
                 q    == BNShr(N, s)
                 half == BNBit(N, s - 1) = 1
                 rest == sticky \/ ~BNLowZero(N, s - 1)
                 up   == half /\ (rest \/ BNBit(q, 0) = 1)
                 q2   == IF up THEN BNAdd(q, <<1>>) ELSE q
             IN  IF BNBitLen(q2) > 53
                 THEN [m |-> BNShr(q2, 1), e |-> e + s + 1]
                 ELSE [m |-> q2, e |-> e + s]

\* `n as f64` for a u64 n
F64FromU64(n) == F64Round(n, 0, FALSE)

F64FromInt(n) == F64FromU64(BN(n))

F64Mul(x, y) == F64Round(BNMul(x.m, y.m), x.e + y.e, FALSE)

\* x / y for a divisor y = k * 2^j whose odd part k is below 2^19
F64Div(x, y) ==
    LET t   == BNTrailingZeros(y.m)
        k   == BNToInt(BNShr(y.m, t))
        res == BNDivSmall(BNShl(x.m, 24), k)
    IN  F64Round(res.q, x.e - y.e - t - 24, res.r # 0)

F64Add(x, y) ==
    IF x.m = <<>> THEN y
    ELSE IF y.m = <<>> THEN x
    ELSE LET lo == Min(x.e, y.e)
         IN  F64Round(BNAdd(BNShl(x.m, x.e - lo), BNShl(y.m, y.e - lo)), lo, FALSE)

F64Leq(x, y) ==
    IF x.m = <<>> THEN TRUE
    ELSE IF y.m = <<>> THEN FALSE
    ELSE LET lo == Min(x.e, y.e)
         IN  BNLeq(BNShl(x.m, x.e - lo), BNShl(y.m, y.e - lo))

\* f64::min
F64Min(x, y) == IF F64Leq(x, y) THEN x ELSE y

\* `x as u64`: truncation toward zero, saturating at u64::MAX
F64ToU64(x) ==
    IF x.m = <<>> THEN <<>>
    ELSE IF x.e >= 0
         THEN IF x.e > 11 THEN U64Max ELSE BNShl(x.m, x.e)
         ELSE BNShr(x.m, 0 - x.e)

\* a decimal literal num/den of the source, as the compiler rounds it
F64Lit(num, den) == F64Div(F64FromInt(num), F64FromInt(den))

-----------------------------------------------------------------------------
(* The accounts of one fund.  Token, swap, vault and oracle programs are   *)
(* outside the repository: a mint credits its destination, a burn succeeds *)
(* exactly when its source holds the amount, and the values an oracle or a *)
(* quote returns are inputs of the operation that asks for them.           *)

Users == {"u1", "u2"}

PubkeyDefault == "default"

\* Option<Pubkey>::None
None == "none"

FUND_CAPACITY == 100

EARLY_ADOPTER_SLOTS == 10

MONTH_SECONDS == 30 * 24 * 3600

DAY_SECONDS == 24 * 3600

REFERRAL_SECONDS == 90 * 24 * 3600

MAX_BATCH == 25

INACTIVE_SCORE == 6

REBATE_LAMPORTS == 5000

DEFAULT_AUTO_REINVEST == 20

\* Bounds of the exploration
StartTime == 1

MaxMonths == 1

MaxDeposits == 400

\* first deposits explored (each mints a stake and a tier badge)
MaxFirst == 2

MaxKeys == 1

\* The instants at which instructions run: month boundaries after the start,
\* and the last second before the first of them.
TimeGrid ==
    {StartTime + m * MONTH_SECONDS : m \in 0..MaxMonths}
        \cup {StartTime + MONTH_SECONDS - 1}

\* The sentinel token accounts a user passes with an instruction of its own
SentinelOf(u) == {u}

VARIABLES
    now,              \* Clock::get()?.unix_timestamp as u64
    fund_initialized, \* the Fund account exists
    fund,             \* Fund
    user_stake,       \* UserStake, one per user of the fund
    sentinel,         \* badge balances of each user's sentinel token accounts
    temp_scores,      \* TempScores.scores
    last,             \* outcome of the most recent instruction
    fee_calc,         \* deposit's fee computation on one u64 amount
    score_calc,       \* rebalance_tiers_batch's score computation on one stake
    reinvest_calc,    \* claim_yields' split of one yield into payout and reinvestment
    call_out,         \* the instruction suspended in a call to an external program
    governance,       \* the pool's multisig signers, pending admin action and governed parameters
    fund_manager,     \* FundManager
    funds             \* the user counters of the Fund account at each fund_index

vars ==
    <<now, fund_initialized, fund, user_stake, sentinel, temp_scores, last, fee_calc,
      score_calc, reinvest_calc, call_out, governance,
                   fund_manager, funds>>

\* A zero-initialised UserStake account
UserStakeZero ==
    [deposit_amount |-> 0, stake_timestamp |-> 0, tier |-> 0,
     referrer |-> PubkeyDefault, referral_expiry |-> 0,
     auto_reinvest_percentage |-> 0]

\* A zero-initialised Fund account
FundZero ==
    [total_deposits |-> 0, user_count |-> 0, early_adopters |-> 0,
     last_rebalance_timestamp |-> 0]

SentinelZero == [stake |-> 0, tier |-> 0, referrer |-> 0]

\* No fee computation under way
FeeCalcIdle == [computed |-> FALSE, amount |-> <<>>]

\* No score computation under way
ScoreCalcIdle == [computed |-> FALSE]

\* No instruction is suspended in a call to an external program
NoCallOut == <<>>

\* The identities that can be multisig signers; the first is the pool's admin
Signers == {"s1", "s2", "s3"}
GovAdmin == "s1"

DEFAULT_TIMELOCK_DELAY == 86400
DEFAULT_APY_BPS == 1200
DEFAULT_DEPOSIT_FEE_BPS == 50
MAX_APY_BPS == 5000
MAX_FEE_BPS == 1000
MAX_MULTISIG_SIGNERS == 10

\* The pool's governance state after initialize: multisig = {admin} with
\* threshold 1, no pending action, default parameters.
GovernanceInit ==
    [multisig_signers |-> {GovAdmin}, multisig_threshold |-> 1,
     timelock_delay |-> DEFAULT_TIMELOCK_DELAY, pending_action |-> <<>>,
     apy_bps |-> DEFAULT_APY_BPS, deposit_fee_bps |-> DEFAULT_DEPOSIT_FEE_BPS,
     is_paused |-> FALSE]

\* The fund indices explored
MaxFundIndex == 2
FundIndices == 0 .. MaxFundIndex

\* The FundManager as init_if_needed creates it
FundManagerZero == [fund_count |-> 0]

\* No account at an address; an account a is <<a>>
NoAccount == <<>>

\* No split of a yield under way
ReinvestCalcIdle == [computed |-> FALSE]

\* An instruction without arguments or accounts of interest
NoArgs == <<>>

\* What an instruction leaves behind: its arguments and the accounts it was
\* given, the error code ("Ok" on success), the lamports it transferred to
\* the calling user, and the events it emitted.
Outcome(op, args, err, payout, events) ==
    [op |-> op, args |-> args, err |-> err, payout |-> payout, events |-> events]

\* A failed instruction: the host reverts every account write.
Abort(op, args, err) ==
    /\ last' = Outcome(op, args, err, 0, <<>>)
    /\ UNCHANGED <<now, fund_initialized, fund, user_stake, sentinel, temp_scores, fee_calc, score_calc, reinvest_calc, call_out, governance,
                   fund_manager, funds>>

Init ==
    /\ now = StartTime
    /\ fund_initialized = FALSE
    /\ fund = FundZero
    /\ user_stake = [u \in Users |-> UserStakeZero]
    /\ sentinel = [u \in Users |-> SentinelZero]
    /\ temp_scores = <<>>
    /\ last = Outcome("none", NoArgs, "Ok", 0, <<>>)
    /\ fee_calc = FeeCalcIdle
    /\ score_calc = ScoreCalcIdle
    /\ reinvest_calc = ReinvestCalcIdle
    /\ call_out = NoCallOut
    /\ governance = GovernanceInit
    /\ fund_manager = FundManagerZero
    /\ funds = [i \in FundIndices |-> NoAccount]

\* The cluster clock advances between instructions.
Tick ==
    /\ \E t \in TimeGrid : t > now /\ now' = t
    /\ UNCHANGED <<fund_initialized, fund, user_stake, sentinel, temp_scores, last, fee_calc, score_calc, reinvest_calc, call_out, governance,
                   fund_manager, funds>>

initialize_fund ==
    /\ ~fund_initialized
    /\ fund_initialized' = TRUE
    /\ fund' = [total_deposits |-> 0, user_count |-> 0, early_adopters |-> 0,
                last_rebalance_timestamp |-> now]
    /\ last' = Outcome("initialize_fund", NoArgs, "Ok", 0, <<>>)
    /\ UNCHANGED <<now, user_stake, sentinel, temp_scores, fee_calc, score_calc, reinvest_calc, call_out, governance,
                   fund_manager, funds>>

RebalanceDueLate(current_time, last_rebalance) ==
    current_time > last_rebalance + MONTH_SECONDS

RebalanceDue(current_time, last_rebalance) ==
    current_time >= last_rebalance + MONTH_SECONDS

trigger_rebalance ==
    /\ fund_initialized
    /\ IF RebalanceDue(now, fund.last_rebalance_timestamp)
       THEN /\ fund' = [fund EXCEPT !.last_rebalance_timestamp = now]
            /\ last' = Outcome("trigger_rebalance", NoArgs, "Ok", 0, <<>>)
            /\ UNCHANGED <<now, fund_initialized, user_stake, sentinel, temp_scores, fee_calc, score_calc, reinvest_calc, call_out, governance,
                   fund_manager, funds>>
       ELSE Abort("trigger_rebalance", NoArgs, "RebalanceNotDue")

-----------------------------------------------------------------------------
(* What a handler returns: an error, or the accounts it has written.  The  *)
(* handlers below take the values they compute once as parameters.         *)

Failed(e) == [err |-> e]

\* The host commits the writes of a successful instruction and reverts a
\* failed one.  us and sa name the UserStake account and the sentinel
\* accounts the instruction was given.
Apply(op, args, us, sa, r) ==
    IF r.err = "Ok"
    THEN /\ fund' = r.fund
         /\ user_stake' = [user_stake EXCEPT ![us] = r.stake]
         /\ sentinel' = [sentinel EXCEPT ![sa] = r.sentinel]
         /\ temp_scores' = r.scores
         /\ last' = Outcome(op, args, "Ok", r.payout, r.events)
         /\ UNCHANGED <<now, fund_initialized, fee_calc, score_calc, reinvest_calc, call_out, governance,
                   fund_manager, funds>>
    ELSE Abort(op, args, r.err)

\* The frame of an instruction suspended in a call to an external program:
\* its checks have passed, r holds what it will write when the call returns.
CallOutFrame(op, args, us, r) == [op |-> op, args |-> args, us |-> us, r |-> r]

\* The instruction calls out when it has something to move out of the vault.
Suspend(op, args, us, r) ==
    /\ r.err = "Ok"
    /\ r.payout > 0 \/ r.fund # fund
    /\ call_out' = <<CallOutFrame(op, args, us, r)>>
    /\ UNCHANGED <<now, fund_initialized, fund, user_stake, sentinel, temp_scores, last,
                   fee_calc, score_calc, reinvest_calc, governance,
                   fund_manager, funds>>

-----------------------------------------------------------------------------
(* deposit                                                                 *)

\* let fee_percentage = 0.005
fee_percentage == F64Lit(5, 1000)

\* (amount as f64 * fee_percentage) as u64, on a u64 amount
FeeAmountU64(amount) == F64ToU64(F64Mul(F64FromU64(amount), fee_percentage))

\* quote.output_amount >= deposit_amount.checked_div(100)
SlippageOk(output_amount, deposit_amount) == output_amount >= deposit_amount \div 100

\* Inputs of a deposit: the amount, the input mint and, for a mint other than
\* SOL, the output amount the swap service quotes.
DepositInputs ==
    { [amount |-> 0,   input_mint |-> PubkeyDefault, quote |-> 0],
      [amount |-> 200, input_mint |-> PubkeyDefault, quote |-> 0],
      [amount |-> 1,   input_mint |-> "usdc",        quote |-> 0],
      [amount |-> 200, input_mint |-> "usdc",        quote |-> 0],
      [amount |-> 200, input_mint |-> "usdc",        quote |-> 150] }

\* The fees of the amounts the exploration deposits, computed once
FeeTable == [a \in {in.amount : in \in DepositInputs} |-> BNToInt(FeeAmountU64(BN(a)))]

FeeAmount(amount) == FeeTable[amount]

\* The first user tries every input; the second makes plain SOL deposits.
DepositInputsOf(u) ==
    IF u = "u1" THEN DepositInputs
    ELSE {in \in DepositInputs : in.input_mint = PubkeyDefault /\ in.amount > 0}

\* The referrer argument: the first user names the second, who names none.
Referrers(u) == IF u = "u1" THEN {"u2"} ELSE {None}

\* if is_first_deposit { user_count += 1; if early_adopters < 10 { += 1 } }
CountFirstDeposit(f, is_first) ==
    [f EXCEPT
       !.user_count = IF is_first THEN @ + 1 ELSE @,
       !.early_adopters = IF is_first /\ @ < EARLY_ADOPTER_SLOTS THEN @ + 1 ELSE @]

\* fund.total_deposits after "Record stake" and "Reinvest fee"
TotalAfterDeposit(total_deposits, sol_amount, fee_amount) ==
    (total_deposits + sol_amount) + (IF fee_amount > 0 THEN fee_amount ELSE 0)

\* The UserStake after a deposit that credits sol_amount
StakeAfterDeposit(us, referrer, has_ref, sol_amount) ==
    [deposit_amount  |-> us.deposit_amount + sol_amount,
     stake_timestamp |-> IF us.stake_timestamp = 0 THEN now ELSE us.stake_timestamp,
     tier            |-> IF us.stake_timestamp = 0 THEN 1 ELSE us.tier,
     referrer        |-> IF has_ref THEN referrer ELSE us.referrer,
     referral_expiry |-> IF has_ref THEN now + REFERRAL_SECONDS ELSE us.referral_expiry,
     auto_reinvest_percentage |->
         IF us.stake_timestamp = 0 THEN DEFAULT_AUTO_REINVEST
         ELSE us.auto_reinvest_percentage]

\* Badges minted to the sentinel accounts on a first deposit
SentinelAfterDeposit(sn, is_first, has_ref) ==
    [stake    |-> sn.stake + (IF is_first THEN 1 ELSE 0),
     tier     |-> sn.tier + (IF is_first THEN 1 ELSE 0),
     referrer |-> sn.referrer + (IF has_ref THEN 1 ELSE 0)]

DepositCommit(u, referrer, sa, is_first, has_ref, fee_amount, sol_amount) ==
    [err      |-> "Ok",
     fund     |-> [CountFirstDeposit(fund, is_first) EXCEPT
                     !.total_deposits = TotalAfterDeposit(@, sol_amount, fee_amount)],
     stake    |-> StakeAfterDeposit(user_stake[u], referrer, has_ref, sol_amount),
     sentinel |-> SentinelAfterDeposit(sentinel[sa], is_first, has_ref),
     scores   |-> temp_scores,
     payout   |-> IF is_first THEN REBATE_LAMPORTS ELSE 0,
     events   |-> IF has_ref
                  THEN <<[event |-> "ReferralEvent", referrer |-> referrer, referred |-> u]>>
                  ELSE <<>>]

DepositCheckedUncapped(u, amount, input_mint, quote, referrer, sa, is_first, fee_amount) ==
    IF ~is_first /\ sentinel[sa].stake < 1 THEN Failed("UnauthorizedWallet")
    ELSE IF ~is_first /\ sentinel[sa].tier < 1 THEN Failed("InvalidTierNFT")
    ELSE IF ~(amount > 0) THEN Failed("ZeroAmount")
    ELSE IF input_mint # PubkeyDefault /\ ~SlippageOk(quote, amount - fee_amount)
    THEN Failed("HighSlippage")
    ELSE DepositCommit(u, referrer, sa, is_first, is_first /\ referrer # None, fee_amount,
                       IF input_mint = PubkeyDefault THEN amount - fee_amount ELSE quote)

DepositChecked(u, amount, input_mint, quote, referrer, sa, is_first, fee_amount) ==
    IF ~(fund.user_count < FUND_CAPACITY) THEN Failed("FundFull")
    ELSE IF ~is_first /\ sentinel[sa].stake < 1 THEN Failed("UnauthorizedWallet")
    ELSE IF ~is_first /\ sentinel[sa].tier < 1 THEN Failed("InvalidTierNFT")
    ELSE IF ~(amount > 0) THEN Failed("ZeroAmount")
    ELSE IF input_mint # PubkeyDefault /\ ~SlippageOk(quote, amount - fee_amount)
    THEN Failed("HighSlippage")
    ELSE DepositCommit(u, referrer, sa, is_first, is_first /\ referrer # None, fee_amount,
                       IF input_mint = PubkeyDefault THEN amount - fee_amount ELSE quote)

DepositResult(u, amount, input_mint, quote, referrer, sa) ==
    DepositChecked(u, amount, input_mint, quote, referrer, sa,
                   user_stake[u].deposit_amount = 0, FeeAmount(amount))

deposit ==
    /\ fund_initialized
    /\ \E u \in Users :
       \E in \in DepositInputsOf(u), referrer \in Referrers(u), sa \in SentinelOf(u) :
         \* bounds of the exploration
         /\ fund.total_deposits + in.amount <= MaxDeposits
         \* first deposits: the first MaxFirst of a fund, and, in a fund whose
         \* early-adopter slots run out, while the user holds fewer than
         \* MaxFirst stake badges
         /\ user_stake[u].deposit_amount = 0 =>
               \/ fund.early_adopters < MaxFirst
               \/ /\ fund.early_adopters >= EARLY_ADOPTER_SLOTS - 1
                  /\ sentinel[sa].stake < MaxFirst
         /\ Apply("deposit",
                  [user |-> u, amount |-> in.amount, input_mint |-> in.input_mint,
                   quote |-> in.quote, referrer |-> referrer],
                  u, sa,
                  DepositResult(u, in.amount, in.input_mint, in.quote, referrer, sa))

-----------------------------------------------------------------------------
(* burn_nft                                                                *)

\* The UserStake after burn_nft, given the badges found in the sentinel
\* accounts.
StakeAfterBurn(us, has_stake, has_tier, has_ref) ==
    [us EXCEPT
       !.deposit_amount  = IF has_stake THEN 0 ELSE @,
       !.tier            = IF has_tier THEN 0 ELSE @,
       !.referrer        = IF has_ref THEN PubkeyDefault ELSE @,
       !.referral_expiry = IF has_ref THEN 0 ELSE @]

SentinelAfterBurn(sn, has_stake, has_tier, has_ref) ==
    [stake    |-> sn.stake - (IF has_stake THEN 1 ELSE 0),
     tier     |-> sn.tier - (IF has_tier THEN 1 ELSE 0),
     referrer |-> sn.referrer - (IF has_ref THEN 1 ELSE 0)]

\* fund.user_count.checked_sub(1) where the stake badge is burned; burn_nft
\* writes no other field of the fund.
FundAfterBurn(f, has_stake) ==
    [f EXCEPT !.user_count = IF has_stake THEN @ - 1 ELSE @]

BurnNftChecked(us, sa, has_stake, has_tier, has_ref) ==
    IF has_stake /\ fund.user_count < 1 THEN Failed("ArithmeticOverflow")
    ELSE [err      |-> "Ok",
          fund     |-> FundAfterBurn(fund, has_stake),
          stake    |-> StakeAfterBurn(user_stake[us], has_stake, has_tier, has_ref),
          sentinel |-> SentinelAfterBurn(sentinel[sa], has_stake, has_tier, has_ref),
          scores   |-> temp_scores,
          payout   |-> 0,
          events   |-> <<>>]

\* The UserStake account us and the sentinel accounts of sa are the ones the
\* caller passes; the instruction constrains neither.
BurnNftResult(us, sa) ==
    BurnNftChecked(us, sa, sentinel[sa].stake >= 1, sentinel[sa].tier >= 1,
                   sentinel[sa].referrer >= 1)

burn_nft ==
    /\ fund_initialized
    /\ \E us \in Users, sa \in Users : Apply("burn_nft", [user_stake |-> us, sentinel |-> sa], us, sa,
               BurnNftResult(us, sa))

-----------------------------------------------------------------------------
(* rebalance_tiers_batch                                                   *)

F64One == F64FromInt(1)

\* 365.0 and 0.2
F64DaysPerYear == F64FromInt(365)

F64LoyaltyRate == F64Lit(2, 10)

\* let days_staked = (current_time - user_stake.stake_timestamp) / day_seconds
DaysStaked(current_time, stake_timestamp) ==
    (current_time - stake_timestamp) \div DAY_SECONDS

\* let years_staked = days_staked as f64 / 365.0;
\* let loyalty_multiplier = 1.0 + (years_staked * 0.2).min(1.0)
LoyaltyMultiplier(days_staked) ==
    F64Add(F64One,
           F64Min(F64Mul(F64Div(F64FromInt(days_staked), F64DaysPerYear),
                         F64LoyaltyRate),
                  F64One))

\* (base_score as f64 * loyalty_multiplier) as u64, on a u64 base_score
ScoreFrom(base_score, days_staked) ==
    F64ToU64(F64Mul(F64FromU64(base_score), LoyaltyMultiplier(days_staked)))

\* The score of a stake of deposit_amount lamports staked for days_staked days
Score(deposit_amount, days_staked) ==
    BNToInt(ScoreFrom(BN(5 * deposit_amount + 5 * days_staked), days_staked))

\* temp_scores.scores[i] = TempScore { user: *user_key, score }
Stored(st, i, user_key, score) ==
    [st EXCEPT !.scores[i] = [user |-> user_key, score |-> score]]

\* Burn for inactivity
Burned(st) ==
    [st EXCEPT !.sentinel.stake = @ - 1,
               !.sentinel.tier = @ - 1,
               !.stake.deposit_amount = 0,
               !.stake.tier = 0,
               !.fund.user_count = @ - 1]

\* The loop over user_keys, from key i on.  st carries the fund, the one
\* UserStake account and the sentinel accounts the instruction was given, and
\* the score buffer.  temp_scores.scores[i] = ... indexes a Vec: it panics
\* when the Vec has no element i, which aborts the instruction.
RECURSIVE BatchLoop(_, _, _)
BatchStep(user_keys, i, st, score) ==
    IF i > Len(st.scores) THEN Failed("Panic")
    ELSE IF ~(score < INACTIVE_SCORE) THEN BatchLoop(user_keys, i + 1, Stored(st, i, user_keys[i], score))
    ELSE IF st.sentinel.stake < 1 \/ st.sentinel.tier < 1 THEN Failed("TokenError")
    ELSE IF st.fund.user_count < 1 THEN Failed("ArithmeticOverflow")
    ELSE BatchLoop(user_keys, i + 1, Burned(Stored(st, i, user_keys[i], score)))

BatchLoop(user_keys, i, st) ==
    IF i > Len(user_keys) THEN st
    ELSE BatchStep(user_keys, i, st,
                   Score(st.stake.deposit_amount,
                         DaysStaked(now, st.stake.stake_timestamp)))

BatchSizeOkBelow(user_keys) == Len(user_keys) < MAX_BATCH

\* require!(user_keys.len() <= 25, ErrorCode::InvalidBatchSize)
BatchSizeOk(user_keys) == Len(user_keys) <= MAX_BATCH

RebalanceTiersBatchResult(us, sa, user_keys) ==
    IF ~BatchSizeOk(user_keys) THEN Failed("InvalidBatchSize")
    ELSE BatchLoop(user_keys, 1,
           [err |-> "Ok", fund |-> fund, stake |-> user_stake[us],
            sentinel |-> sentinel[sa], scores |-> temp_scores,
            payout |-> 0, events |-> <<>>])

RECURSIVE SeqsUpTo(_, _)
SeqsUpTo(S, n) ==
    IF n = 0 THEN {<<>>}
    ELSE {Append(q, x) : q \in {r \in SeqsUpTo(S, n - 1) : Len(r) = n - 1}, x \in S}
            \cup SeqsUpTo(S, n - 1)

\* The key vectors explored: every vector of at most MaxKeys keys, a full
\* batch, and one that is longer than a batch may be.
BatchKeys ==
    SeqsUpTo(Users, MaxKeys)
        \cup {[i \in 1..n |-> "u1"] : n \in {MAX_BATCH, MAX_BATCH + 1}}

rebalance_tiers_batch ==
    /\ fund_initialized
    /\ \E us \in Users, user_keys \in BatchKeys :
       \E sa \in SentinelOf(us) :
         Apply("rebalance_tiers_batch",
               [user_stake |-> us, sentinel |-> sa, user_keys |-> user_keys],
               us, sa, RebalanceTiersBatchResult(us, sa, user_keys))

-----------------------------------------------------------------------------
(* finalize_rebalance                                                      *)

Swap(s, j) == [s EXCEPT ![j] = s[j + 1], ![j + 1] = s[j]]

OutOfOrderOrTied(x, y) == x.score <= y.score

\* if scores[j].score < scores[j + 1].score { swap }
OutOfOrder(x, y) == x.score < y.score

\* for j in 0..len - i - 1: positions j+1 and j+2 here, counting from 1
RECURSIVE BubbleInner(_, _, _)
BubbleInner(s, j, i) ==
    IF j >= Len(s) - i - 1 THEN s
    ELSE BubbleInner(IF OutOfOrder(s[j + 1], s[j + 2]) THEN Swap(s, j + 1) ELSE s, j + 1, i)

\* for i in 0..len
RECURSIVE BubbleOuter(_, _)
BubbleOuter(s, i) ==
    IF i >= Len(s) THEN s ELSE BubbleOuter(BubbleInner(s, 0, i), i + 1)

BubbleSort(s) == BubbleOuter(s, 0)

TierOfRankTopEleven(i) == IF i <= 10 THEN 3 ELSE IF i < 30 THEN 2 ELSE 1

\* let tier = if i < 10 { 3 } else if i < 30 { 2 } else { 1 }, i counted from 0
TierOfRank(i) == IF i < 10 THEN 3 ELSE IF i < 30 THEN 2 ELSE 1

get_est_apy(tier) ==
    CASE tier = 1 -> "11.64"
      [] tier = 2 -> "17.45"
      [] tier = 3 -> "23.27"
      [] OTHER    -> "0.0"

\* The TierRebalanceEvents of one finalize, in the order they are emitted
RebalanceEventsButLast(sorted) ==
    [k \in 1..(Len(sorted) - 1) |->
        [event |-> "TierRebalanceEvent", user |-> sorted[k].user,
         new_tier |-> TierOfRank(k - 1), score |-> sorted[k].score,
         est_apy |-> get_est_apy(TierOfRank(k - 1))]]

\* One TierRebalanceEvent per entry of the sorted buffer
RebalanceEvents(sorted) ==
    [k \in 1..Len(sorted) |->
        [event |-> "TierRebalanceEvent", user |-> sorted[k].user,
         new_tier |-> TierOfRank(k - 1), score |-> sorted[k].score,
         est_apy |-> get_est_apy(TierOfRank(k - 1))]]

finalize_rebalance_stores_tier ==
    /\ fund_initialized
    /\ temp_scores' = <<>>
    /\ last' = Outcome("finalize_rebalance", NoArgs, "Ok", 0, RebalanceEvents(BubbleSort(temp_scores)))
    /\ user_stake' =
          [u \in Users |->
              IF \E k \in 1..Len(temp_scores) : temp_scores[k].user = u
              THEN [user_stake[u] EXCEPT !.tier =
                      TierOfRank((CHOOSE k \in 1..Len(temp_scores) :
                                     BubbleSort(temp_scores)[k].user = u) - 1)]
              ELSE user_stake[u]]
    /\ UNCHANGED <<now, fund_initialized, fund, sentinel, fee_calc, score_calc, reinvest_calc, call_out, governance,
                   fund_manager, funds>>

finalize_rebalance ==
    /\ fund_initialized
    /\ temp_scores' = <<>>
    /\ last' = Outcome("finalize_rebalance", NoArgs, "Ok", 0, RebalanceEvents(BubbleSort(temp_scores)))
    /\ UNCHANGED <<now, fund_initialized, fund, user_stake, sentinel, fee_calc, score_calc, reinvest_calc, call_out, governance,
                   fund_manager, funds>>

-----------------------------------------------------------------------------
(* deposit_yield_reserve                                                   *)

\* The first eight bytes of the account passed as yield_reserve
YieldBalances == {0, 200}

deposit_yield_reserve ==
    /\ fund_initialized
    /\ \E yield_balance \in YieldBalances :
         /\ fund.total_deposits + yield_balance <= MaxDeposits
         /\ fund' = IF yield_balance > 0
                    THEN [fund EXCEPT !.total_deposits = @ + yield_balance]
                    ELSE fund
         /\ last' = Outcome("deposit_yield_reserve", [yield_balance |-> yield_balance],
                            "Ok", 0, <<>>)
         /\ UNCHANGED <<now, fund_initialized, user_stake, sentinel, temp_scores, fee_calc, score_calc, reinvest_calc, call_out, governance,
                   fund_manager, funds>>

-----------------------------------------------------------------------------
(* claim_yields                                                            *)

\* let base_weight = match user_stake.tier { 1 => 1.0, 2 => 1.5, 3 => 2.0 }
base_weight ==
    [tier \in {1, 2, 3} |->
        CASE tier = 1 -> F64One
          [] tier = 2 -> F64Lit(3, 2)
          [] tier = 3 -> F64FromInt(2)]

\* if ... { 1.1 } else { 1.0 }
Multiplier == [b \in BOOLEAN |-> IF b THEN F64Lit(11, 10) ELSE F64One]

\* base_weight * referral_multiplier * early_adopter_multiplier
WeightTable ==
    [tier \in {1, 2, 3}, has_active_referral \in BOOLEAN, early \in BOOLEAN |->
        F64Mul(F64Mul(base_weight[tier], Multiplier[has_active_referral]),
               Multiplier[early])]

Weight(tier, has_active_referral, early) == WeightTable[tier, has_active_referral, early]

\* let protocol_reinvestment = if user_stake.tier == 3 { 0.0 } else { 0.2 }
protocol_reinvestment == [tier \in {1, 2, 3} |-> IF tier = 3 THEN F64Zero ELSE F64Lit(2, 10)]

\* (protocol_reinvestment + user_reinvestment).min(1.0), for every u8
\* percentage set_auto_reinvest accepts
TotalReinvestmentTable ==
    [tier \in {1, 2, 3}, auto_reinvest_percentage \in 0..100 |->
        F64Min(F64Add(protocol_reinvestment[tier],
                      F64Div(F64FromInt(auto_reinvest_percentage), F64FromInt(100))),
               F64One)]

TotalReinvestment(tier, auto_reinvest_percentage) ==
    TotalReinvestmentTable[tier, auto_reinvest_percentage]

\* ((deposit_amount as f64 * weight) / total_deposits as f64
\*      * total_yields as f64) as u64
\* A division by 0.0 gives an infinity, and its cast saturates (a NaN casts
\* to 0).
UserYieldU64(deposit_amount, weight, total_deposits, total_yields) ==
    IF total_deposits = 0
    THEN IF total_yields = 0 THEN <<>> ELSE U64Max
    ELSE F64ToU64(F64Mul(F64Div(F64Mul(F64FromInt(deposit_amount), weight),
                                F64FromInt(total_deposits)),
                         F64FromInt(total_yields)))

\* (user_yield as f64 * total_reinvestment) as u64
ReinvestAmount(user_yield, total_reinvestment) ==
    BNToInt(F64ToU64(F64Mul(F64FromInt(user_yield), total_reinvestment)))

\* What the oracle and the vault report to one claim: the price, and the
\* value of the vault as its excess over the deposits the fund has recorded.
ClaimInputs ==
    { [jupsol_price |-> 1, surplus |-> 0],
      [jupsol_price |-> 1, surplus |-> 100],
      [jupsol_price |-> 2, surplus |-> 100] }

\* The sentinel token accounts passed with a claim, one for the stake badge
\* and one for the tier badge: the first user tries the other user's as
\* well.
ClaimSentinels(u) ==
    IF u = "u1"
    THEN {[stake |-> "u1", tier |-> "u1"], [stake |-> "u2", tier |-> "u2"],
          [stake |-> "u1", tier |-> "u2"]}
    ELSE {[stake |-> u, tier |-> u]}

ClaimCommit(u, sa, user_yield, reinvest_amount) ==
    IF user_yield > 0 /\ reinvest_amount > user_yield THEN Failed("ArithmeticOverflow")
    ELSE [err      |-> "Ok",
          fund     |-> [fund EXCEPT !.total_deposits =
                           IF user_yield > 0 /\ reinvest_amount > 0
                           THEN @ + reinvest_amount ELSE @],
          stake    |-> user_stake[u],
          sentinel |-> sentinel[sa],
          scores   |-> temp_scores,
          payout   |-> IF user_yield > 0 THEN user_yield - reinvest_amount ELSE 0,
          events   |-> <<>>]

ClaimPaid(u, sa, user_yield, total_reinvestment) ==
    ClaimCommit(u, sa, user_yield, ReinvestAmount(user_yield, total_reinvestment))

ClaimGateTierBadgeOptional(stake, stake_badges, tier_badges) ==
    IF stake_badges < 1 THEN "UnauthorizedWallet"
    ELSE IF ~(stake.deposit_amount > 0) THEN "NoDeposit"
    ELSE IF stake.tier \notin {1, 2, 3} THEN "InvalidTier"
    ELSE "Ok"

\* The checks a claim makes on the badges and the stake record before any
\* computation: the error of the first one that fails
ClaimGate(stake, stake_badges, tier_badges) ==
    IF stake_badges < 1 THEN "UnauthorizedWallet"
    ELSE IF tier_badges < 1 THEN "InvalidTierNFT"
    ELSE IF ~(stake.deposit_amount > 0) THEN "NoDeposit"
    ELSE IF stake.tier \notin {1, 2, 3} THEN "InvalidTier"
    ELSE "Ok"

ClaimComputed(u, sa, jupsol_price, current_pool_value) ==
    IF ~(current_pool_value >= fund.total_deposits * jupsol_price)
    THEN Failed("InvalidVaultValue")
    ELSE ClaimPaid(u, sa,
           BNToInt(UserYieldU64(
               user_stake[u].deposit_amount,
               Weight(user_stake[u].tier,
                      user_stake[u].referrer # PubkeyDefault
                          /\ now < user_stake[u].referral_expiry,
                      fund.early_adopters < EARLY_ADOPTER_SLOTS
                          /\ user_stake[u].deposit_amount > 0),
               fund.total_deposits,
               Max(current_pool_value - fund.total_deposits, 0))),
           TotalReinvestment(user_stake[u].tier, user_stake[u].auto_reinvest_percentage))

ClaimGated(u, sa, jupsol_price, current_pool_value, gate) ==
    IF gate # "Ok" THEN Failed(gate)
    ELSE ClaimComputed(u, sa, jupsol_price, current_pool_value)

\* sa names the sentinel stake account, ta the sentinel tier account
ClaimYieldsResult(u, sa, ta, jupsol_price, current_pool_value) ==
    ClaimGated(u, sa, jupsol_price, current_pool_value,
               ClaimGate(user_stake[u], sentinel[sa].stake, sentinel[ta].tier))

claim_yields ==
    /\ fund_initialized
    /\ \E u \in Users, in \in ClaimInputs :
       \E acc \in ClaimSentinels(u) :
         \* bound of the exploration
         /\ fund.total_deposits + in.surplus <= MaxDeposits
         /\ Apply("claim_yields",
                  [user |-> u, sentinel_stake |-> acc.stake, sentinel_tier |-> acc.tier,
                   jupsol_price |-> in.jupsol_price,
                   current_pool_value |-> fund.total_deposits + in.surplus],
                  u, acc.stake,
                  ClaimYieldsResult(u, acc.stake, acc.tier, in.jupsol_price,
                                    fund.total_deposits + in.surplus))

-----------------------------------------------------------------------------
Next ==
    \/ Tick
    \/ initialize_fund
    \/ trigger_rebalance
    \/ deposit
    \/ burn_nft
    \/ rebalance_tiers_batch
    \/ finalize_rebalance
    \/ claim_yields
    \/ deposit_yield_reserve

Spec == Init /\ [][Next]_vars

-----------------------------------------------------------------------------
(* claim_yields around its calls to the vault program.  The program keeps  *)
(* no guard of its own: whether a call back into the program from inside   *)
(* the external call is admitted is up to the host.  An admitted call runs  *)
(* the instruction as usual; a refused one aborts the transaction.         *)

\* claim_yields has passed its checks and computed the yield, and calls
\* kamino::reduce_position; no account is written yet.
claim_yields_calls_out ==
    /\ fund_initialized
    /\ call_out = NoCallOut
    /\ \E u \in Users, in \in ClaimInputs :
       \E acc \in ClaimSentinels(u) :
         /\ fund.total_deposits + in.surplus <= MaxDeposits
         /\ Suspend("claim_yields",
                    [user |-> u, sentinel_stake |-> acc.stake, sentinel_tier |-> acc.tier,
                     jupsol_price |-> in.jupsol_price,
                     current_pool_value |-> fund.total_deposits + in.surplus],
                    u,
                    ClaimYieldsResult(u, acc.stake, acc.tier, in.jupsol_price,
                                      fund.total_deposits + in.surplus))

\* The external call returns: claim_yields adds the reinvested amount to its
\* copy of the fund, and the program's accounts are written back on exit.
claim_yields_returns ==
    /\ call_out # NoCallOut
    /\ fund' = call_out[1].r.fund
    /\ user_stake' = [user_stake EXCEPT ![call_out[1].us] = call_out[1].r.stake]
    /\ last' = Outcome(call_out[1].op, call_out[1].args, "Ok", call_out[1].r.payout,
                       call_out[1].r.events)
    /\ call_out' = NoCallOut
    /\ UNCHANGED <<now, fund_initialized, sentinel, temp_scores, fee_calc, score_calc,
                   reinvest_calc, governance,
                   fund_manager, funds>>

\* The instructions that pay out or exit
ReentrantOps == {"claim_yields", "burn_nft"}

\* The host refuses the call back into the program; the error reaches the
\* suspended instruction through invoke(..)? and the transaction is reverted.
reentry_refused ==
    /\ call_out # NoCallOut
    /\ \E op \in ReentrantOps : last' = Outcome(op, NoArgs, "ReentrancyNotAllowed", 0, <<>>)
    /\ call_out' = NoCallOut
    /\ UNCHANGED <<now, fund_initialized, fund, user_stake, sentinel, temp_scores,
                   fee_calc, score_calc, reinvest_calc, governance,
                   fund_manager, funds>>

NextReentry ==
    \/ call_out = NoCallOut /\ initialize_fund
    \/ call_out = NoCallOut /\ deposit
    \/ claim_yields_calls_out
    \/ claim_yields
    \/ burn_nft
    \/ reentry_refused
    \/ claim_yields_returns

SpecReentry == Init /\ [][NextReentry]_vars

-----------------------------------------------------------------------------
(* set_auto_reinvest, and deposit and burn_nft on a fund that other users  *)
(* have filled close to its capacity.                                      *)

\* The percentages a user asks for (u8)
AutoReinvestInputs == {0, 100, 101, 255}

\* The account checks (the UserStake exists once a deposit has created it,
\* the stake badge account holds a badge), then the handler.
SetAutoReinvestUnbounded(u, sa, auto_reinvest_percentage) ==
    IF user_stake[u].stake_timestamp = 0 THEN Failed("AccountNotInitialized")
    ELSE IF sentinel[sa].stake < 1 THEN Failed("UnauthorizedWallet")
    ELSE [err |-> "Ok", fund |-> fund,
          stake |-> [user_stake[u] EXCEPT
                       !.auto_reinvest_percentage = auto_reinvest_percentage],
          sentinel |-> sentinel[sa], scores |-> temp_scores, payout |-> 0,
          events |-> <<>>]

SetAutoReinvestResult(u, sa, auto_reinvest_percentage) ==
    IF user_stake[u].stake_timestamp = 0 THEN Failed("AccountNotInitialized")
    ELSE IF sentinel[sa].stake < 1 THEN Failed("UnauthorizedWallet")
    ELSE IF ~(auto_reinvest_percentage <= 100) THEN Failed("InvalidPercentage")
    ELSE [err |-> "Ok", fund |-> fund,
          stake |-> [user_stake[u] EXCEPT
                       !.auto_reinvest_percentage = auto_reinvest_percentage],
          sentinel |-> sentinel[sa], scores |-> temp_scores, payout |-> 0,
          events |-> <<>>]

set_auto_reinvest ==
    /\ fund_initialized
    /\ \E u \in Users, sa \in Users, auto_reinvest_percentage \in AutoReinvestInputs :
         Apply("set_auto_reinvest",
               [user |-> u, sentinel_stake |-> sa,
                auto_reinvest_percentage |-> auto_reinvest_percentage],
               u, sa, SetAutoReinvestResult(u, sa, auto_reinvest_percentage))

\* Funds after first deposits of users other than those explored, each of
\* which credited 0: one early-adopter slot left, and two and one places left.
FilledFunds ==
    {[FundZero EXCEPT !.user_count = c, !.early_adopters = Min(c, EARLY_ADOPTER_SLOTS),
                      !.last_rebalance_timestamp = StartTime] :
        c \in {EARLY_ADOPTER_SLOTS - 1, FUND_CAPACITY - 2, FUND_CAPACITY - 1}}

InitCapacity ==
    /\ now = StartTime
    /\ fund_initialized = TRUE
    /\ fund \in FilledFunds
    /\ user_stake = [u \in Users |-> UserStakeZero]
    /\ sentinel = [u \in Users |-> SentinelZero]
    /\ temp_scores = <<>>
    /\ last = Outcome("none", NoArgs, "Ok", 0, <<>>)
    /\ fee_calc = FeeCalcIdle
    /\ score_calc = ScoreCalcIdle
    /\ reinvest_calc = ReinvestCalcIdle
    /\ call_out = NoCallOut
    /\ governance = GovernanceInit
    /\ fund_manager = FundManagerZero
    /\ funds = [i \in FundIndices |-> NoAccount]

NextCapacity ==
    \/ deposit
    \/ burn_nft
    \/ set_auto_reinvest

SpecCapacity == InitCapacity /\ [][NextCapacity]_vars

-----------------------------------------------------------------------------
(* The fund manager: initialize_fund at any fund_index, the first deposits *)
(* that fill a fund, and find_open_fund.                                   *)

\* Deposits are explored into the funds up to this index
MaxDepositFund == 0

\* initialize_fund(fund_index): `init` refuses an address that holds an
\* account; fund_count is set to 1 for index 0 and incremented otherwise.
initialize_fund_indexed ==
    /\ call_out = NoCallOut
    /\ \E fund_index \in FundIndices :
         IF funds[fund_index] # NoAccount
         THEN /\ last' = Outcome("initialize_fund", [fund_index |-> fund_index],
                                 "AccountAlreadyInUse", 0, <<>>)
              /\ UNCHANGED <<fund_manager, funds>>
         ELSE /\ fund_manager' =
                   [fund_count |-> IF fund_index = 0 THEN 1
                                   ELSE fund_manager.fund_count + 1]
              /\ funds' = [funds EXCEPT ![fund_index] =
                              <<[user_count |-> 0, early_adopters |-> 0]>>]
              /\ last' = Outcome("initialize_fund", [fund_index |-> fund_index],
                                 "Ok", 0, <<>>)
    /\ UNCHANGED <<now, fund_initialized, fund, user_stake, sentinel, temp_scores,
                   fee_calc, score_calc, reinvest_calc, call_out, governance>>

\* The first deposit of one more user into the fund at fund_index, as far
\* as the fund's user counters go
deposit_indexed ==
    /\ call_out = NoCallOut
    /\ \E fund_index \in 0 .. MaxDepositFund :
         IF funds[fund_index] = NoAccount
         THEN /\ last' = Outcome("deposit", [fund_index |-> fund_index],
                                 "AccountNotInitialized", 0, <<>>)
              /\ UNCHANGED funds
         ELSE IF ~(funds[fund_index][1].user_count < FUND_CAPACITY)
         THEN /\ last' = Outcome("deposit", [fund_index |-> fund_index], "FundFull", 0, <<>>)
              /\ UNCHANGED funds
         ELSE /\ funds' = [funds EXCEPT ![fund_index] =
                              <<CountFirstDeposit(funds[fund_index][1], TRUE)>>]
              /\ last' = Outcome("deposit", [fund_index |-> fund_index], "Ok",
                                 REBATE_LAMPORTS, <<>>)
    /\ UNCHANGED <<now, fund_initialized, fund, user_stake, sentinel, temp_scores,
                   fee_calc, score_calc, reinvest_calc, call_out, governance,
                   fund_manager>>

\* for i in 0..fund_count { if fund(i).user_count < 100 { return Ok(i) } }
\* Ok(fund_count); loading a fund that does not exist fails.
RECURSIVE FindOpenFundFrom(_, _, _)
FindOpenFundFrom(fm, fs, i) ==
    IF i >= fm.fund_count THEN [err |-> "Ok", index |-> fm.fund_count]
    ELSE IF i \notin FundIndices \/ fs[i] = NoAccount
         THEN [err |-> "AccountNotInitialized", index |-> i]
    ELSE IF fs[i][1].user_count < FUND_CAPACITY THEN [err |-> "Ok", index |-> i]
    ELSE FindOpenFundFrom(fm, fs, i + 1)

find_open_fund(fm, fs) == FindOpenFundFrom(fm, fs, 0)

NextManager ==
    \/ initialize_fund_indexed
    \/ deposit_indexed

SpecManager == Init /\ [][NextManager]_vars

-----------------------------------------------------------------------------
(* The multisig timelock: propose_admin_action, sign_admin_action and      *)
(* execute_admin_action on the pool's pending action, and the admin-gated  *)
(* signer management.                                                      *)

MaxGovSteps == 3
MaxGovThreshold == 3
GovTimeStep == 43200

\* The admin actions proposed: within and beyond the bounds of the parameter
GovProposals ==
    {[action_type |-> "UpdateApy", payload |-> 800],
     [action_type |-> "UpdateFee", payload |-> 800],
     [action_type |-> "UpdateFee", payload |-> 6000],
     [action_type |-> "Pause", payload |-> 0],
     [action_type |-> "Unpause", payload |-> 0]}

\* What a governance instruction returns: its error code ("Ok" on success)
\* and the governance state it leaves
GovResult(e, g) == [err |-> e, governance |-> g]

\* A governance instruction commits its writes or is reverted whole.
GovApply(op, args, r) ==
    /\ governance' = r.governance
    /\ last' = Outcome(op, args, r.err, 0, <<>>)
    /\ UNCHANGED <<now, fund_initialized, fund, user_stake, sentinel, temp_scores,
                   fee_calc, score_calc, reinvest_calc, call_out,
                   fund_manager, funds>>

GovTick ==
    /\ now + GovTimeStep <= StartTime + MaxGovSteps * GovTimeStep
    /\ now' = now + GovTimeStep
    /\ UNCHANGED <<fund_initialized, fund, user_stake, sentinel, temp_scores, last,
                   fee_calc, score_calc, reinvest_calc, call_out, governance,
                   fund_manager, funds>>

AddSignerResult(caller, signer) ==
    IF caller # GovAdmin THEN GovResult("Unauthorized", governance)
    ELSE IF signer \in governance.multisig_signers THEN GovResult("SignerAlreadyExists", governance)
    ELSE IF Cardinality(governance.multisig_signers) >= MAX_MULTISIG_SIGNERS
         THEN GovResult("TooManySigners", governance)
    ELSE GovResult("Ok", [governance EXCEPT !.multisig_signers = @ \cup {signer}])

add_multisig_signer ==
    /\ call_out = NoCallOut
    \* called by the admin and by another signer
    /\ \E caller \in {GovAdmin, "s2"}, signer \in Signers :
       GovApply("add_multisig_signer", [caller |-> caller, signer |-> signer],
                AddSignerResult(caller, signer))

UpdateThresholdResult(caller, threshold) ==
    IF caller # GovAdmin THEN GovResult("Unauthorized", governance)
    ELSE IF threshold < 1 \/ threshold > Cardinality(governance.multisig_signers)
         THEN GovResult("InvalidThreshold", governance)
    ELSE GovResult("Ok", [governance EXCEPT !.multisig_threshold = threshold])

update_multisig_threshold ==
    /\ call_out = NoCallOut
    /\ \E caller \in {GovAdmin, "s2"}, threshold \in 0 .. MaxGovThreshold :
       GovApply("update_multisig_threshold", [caller |-> caller, threshold |-> threshold],
                UpdateThresholdResult(caller, threshold))

PendingAction(action_type, proposer, payload, proposed_at, timelock_delay) ==
    [action_type |-> action_type, proposer |-> proposer, signatures |-> {proposer},
     proposed_at |-> proposed_at, executable_at |-> proposed_at + timelock_delay,
     payload |-> payload]

ProposeResult(caller, action_type, payload) ==
    IF caller \notin governance.multisig_signers THEN GovResult("UnauthorizedSigner", governance)
    ELSE IF governance.pending_action # <<>> THEN GovResult("PendingActionExists", governance)
    ELSE GovResult("Ok", [governance EXCEPT !.pending_action =
                   <<PendingAction(action_type, caller, payload, now,
                                   governance.timelock_delay)>>])

propose_admin_action ==
    /\ call_out = NoCallOut
    /\ \E caller \in Signers, in \in GovProposals :
       GovApply("propose_admin_action",
                [caller |-> caller, action_type |-> in.action_type, payload |-> in.payload],
                ProposeResult(caller, in.action_type, in.payload))

SignResult(caller) ==
    IF governance.pending_action = <<>> THEN GovResult("NoPendingAction", governance)
    ELSE IF caller \notin governance.multisig_signers THEN GovResult("UnauthorizedSigner", governance)
    ELSE IF caller \in governance.pending_action[1].signatures THEN GovResult("AlreadySigned", governance)
    ELSE GovResult("Ok", [governance EXCEPT !.pending_action[1].signatures = @ \cup {caller}])

sign_admin_action ==
    /\ call_out = NoCallOut
    /\ \E caller \in Signers :
       GovApply("sign_admin_action", [caller |-> caller], SignResult(caller))

\* The checks of execute_admin_action on the pending action
ExecuteGateNoTimelock(g, current_time) ==
    IF g.pending_action = <<>> THEN "NoPendingAction"
    ELSE IF Cardinality(g.pending_action[1].signatures) < g.multisig_threshold
         THEN "InsufficientSignatures"
    ELSE "Ok"

ExecuteGate(g, current_time) ==
    IF g.pending_action = <<>> THEN "NoPendingAction"
    ELSE IF current_time < g.pending_action[1].executable_at THEN "TimelockNotExpired"
    ELSE IF Cardinality(g.pending_action[1].signatures) < g.multisig_threshold
         THEN "InsufficientSignatures"
    ELSE "Ok"

\* The dispatch by action type; the pending action is cleared.
Dispatch(g, p) ==
    IF p.action_type = "UpdateApy"
    THEN IF p.payload > MAX_APY_BPS THEN GovResult("InvalidApy", governance)
         ELSE GovResult("Ok", [g EXCEPT !.apy_bps = p.payload, !.pending_action = <<>>])
    ELSE IF p.action_type = "UpdateFee"
    THEN IF p.payload > MAX_FEE_BPS THEN GovResult("InvalidFee", governance)
         ELSE GovResult("Ok", [g EXCEPT !.deposit_fee_bps = p.payload, !.pending_action = <<>>])
    ELSE GovResult("Ok", [g EXCEPT !.is_paused = (p.action_type = "Pause"), !.pending_action = <<>>])

ExecuteGated(gate) ==
    IF gate # "Ok" THEN GovResult(gate, governance)
    ELSE Dispatch(governance, governance.pending_action[1])

execute_admin_action ==
    /\ call_out = NoCallOut
    /\ \E caller \in {GovAdmin, "s2"} :
       GovApply("execute_admin_action", [caller |-> caller],
                ExecuteGated(ExecuteGate(governance, now)))

NextGovernance ==
    \/ GovTick
    \/ add_multisig_signer
    \/ update_multisig_threshold
    \/ propose_admin_action
    \/ sign_admin_action
    \/ execute_admin_action

SpecGovernance == Init /\ [][NextGovernance]_vars


-----------------------------------------------------------------------------
(* The fee computation of deposit on u64 amounts of every magnitude.  The  *)
(* amounts are little-endian limb sequences.                               *)

\* hi * 10^9 + lo
BNDec(hi, lo) == BNAdd(BNMul(BN(hi), BN(1000000000)), BN(lo))

MaxSmallAmount == 60

MinPow == 50

FeeAmounts ==
    {BN(a) : a \in 1..MaxSmallAmount}
        \cup {BN(199), BN(200), BN(201), BN(1000000), BNDec(10, 0), BNDec(1000, 0)}
        \cup {BNShl(<<1>>, k) : k \in MinPow..63}
        \cup {BNSub(BNShl(<<1>>, k), <<1>>) : k \in MinPow..64}
        \cup {BNAdd(BNShl(<<1>>, k), <<1>>) : k \in MinPow..63}
        \cup {BNDec(17938533, 166996799)}

InitFee ==
    /\ now = StartTime
    /\ fund_initialized = FALSE
    /\ fund = FundZero
    /\ user_stake = [u \in Users |-> UserStakeZero]
    /\ sentinel = [u \in Users |-> SentinelZero]
    /\ temp_scores = <<>>
    /\ last = Outcome("none", NoArgs, "Ok", 0, <<>>)
    /\ \E a \in FeeAmounts : fee_calc = [computed |-> FALSE, amount |-> a]
    /\ score_calc = ScoreCalcIdle
    /\ reinvest_calc = ReinvestCalcIdle
    /\ call_out = NoCallOut
    /\ governance = GovernanceInit
    /\ fund_manager = FundManagerZero
    /\ funds = [i \in FundIndices |-> NoAccount]

\* let fee_amount = (amount as f64 * fee_percentage) as u64;
\* let deposit_amount = amount.checked_sub(fee_amount).ok_or(ArithmeticOverflow)?
ComputeFee ==
    /\ ~fee_calc.computed
    /\ fee_calc' =
         [computed       |-> TRUE,
          amount         |-> fee_calc.amount,
          fee_amount     |-> FeeAmountU64(fee_calc.amount),
          err            |-> IF BNLeq(FeeAmountU64(fee_calc.amount), fee_calc.amount)
                             THEN "Ok" ELSE "ArithmeticOverflow",
          deposit_amount |-> IF BNLeq(FeeAmountU64(fee_calc.amount), fee_calc.amount)
                             THEN BNSub(fee_calc.amount, FeeAmountU64(fee_calc.amount))
                             ELSE <<>>]
    /\ UNCHANGED <<now, fund_initialized, fund, user_stake, sentinel, temp_scores, last,
                   score_calc, reinvest_calc, call_out, governance,
                   fund_manager, funds>>

NextFee == ComputeFee

SpecFee == InitFee /\ [][NextFee]_vars

-----------------------------------------------------------------------------
(* The score computation of rebalance_tiers_batch on one stake, at the     *)
(* width of u64.  The source does not fix whether the program is built     *)
(* with overflow checks: an unchecked u64 operation that overflows panics  *)
(* in a build with them and wraps modulo 2^64 in a build without.          *)

MaxScoreDeposit == 20

MaxScoreDays == 3

\* The low 64 bits of a
BNLow64(a) == BNSub(a, BNShl(BNShr(a, 64), 64))

\* 5 * user_stake.deposit_amount + 5 * days_staked, before it is cut to u64
BaseScoreExact(deposit_amount, days_staked) ==
    BNAdd(BNMul(BN(5), deposit_amount), BN(5 * days_staked))

ScoreCalcDone(c, days_staked, err, base_score) ==
    [computed        |-> TRUE,
     deposit_amount  |-> c.deposit_amount,
     current_time    |-> c.current_time,
     stake_timestamp |-> c.stake_timestamp,
     days_staked     |-> days_staked,
     err             |-> err,
     base_score      |-> base_score,
     score           |-> IF err = "Ok" THEN ScoreFrom(base_score, days_staked) ELSE <<>>]

\* Lines 482-492 on the stake c, in a build with or without overflow checks
ScoreCalc(c, days_staked, exact, overflow_checks) ==
    IF BNLeq(exact, U64Max) THEN ScoreCalcDone(c, days_staked, "Ok", exact)
    ELSE IF overflow_checks THEN ScoreCalcDone(c, days_staked, "Panic", <<>>)
    ELSE ScoreCalcDone(c, days_staked, "Ok", BNLow64(exact))

ScoreDeposits ==
    {BN(a) : a \in 0..MaxScoreDeposit}
        \cup {BN(363), BN(364), BN(728)}
        \cup {BNDivSmall(U64Max, 5).q, BNAdd(BNDivSmall(U64Max, 5).q, <<1>>), U64Max}

\* Seconds staked
ScoreElapsed ==
    {d * DAY_SECONDS : d \in 0..MaxScoreDays}
        \cup {d * DAY_SECONDS - 1 : d \in 1..MaxScoreDays}
        \cup {d * DAY_SECONDS : d \in {365, 1825, 1826}}

InitScore ==
    /\ now = StartTime
    /\ fund_initialized = FALSE
    /\ fund = FundZero
    /\ user_stake = [u \in Users |-> UserStakeZero]
    /\ sentinel = [u \in Users |-> SentinelZero]
    /\ temp_scores = <<>>
    /\ last = Outcome("none", NoArgs, "Ok", 0, <<>>)
    /\ fee_calc = FeeCalcIdle
    /\ reinvest_calc = ReinvestCalcIdle
    /\ call_out = NoCallOut
    /\ governance = GovernanceInit
    /\ fund_manager = FundManagerZero
    /\ funds = [i \in FundIndices |-> NoAccount]
    /\ \E d \in ScoreDeposits, t \in ScoreElapsed :
         score_calc = [computed |-> FALSE, deposit_amount |-> d,
                       current_time |-> StartTime + t, stake_timestamp |-> StartTime]

ComputeScore ==
    /\ ~score_calc.computed
    /\ \E overflow_checks \in BOOLEAN :
         score_calc' =
             ScoreCalc(score_calc,
                       DaysStaked(score_calc.current_time, score_calc.stake_timestamp),
                       BaseScoreExact(score_calc.deposit_amount,
                                      DaysStaked(score_calc.current_time,
                                                 score_calc.stake_timestamp)),
                       overflow_checks)
    /\ UNCHANGED <<now, fund_initialized, fund, user_stake, sentinel, temp_scores, last,
                   fee_calc, reinvest_calc, call_out, governance,
                   fund_manager, funds>>

NextScore == ComputeScore

SpecScore == InitScore /\ [][NextScore]_vars

-----------------------------------------------------------------------------
(* The split of a yield into payout and reinvestment in claim_yields, for  *)
(* every percentage set_auto_reinvest accepts.  The stored tier of a user  *)
(* who can claim is 1.                                                     *)

MaxUserYield == 200

\* Lines 897-911 on the yield, tier and percentage of c
ReinvestCalcDone(c, reinvest_amount) ==
    [computed    |-> TRUE,
     user_yield  |-> c.user_yield,
     tier        |-> c.tier,
     auto_reinvest_percentage |-> c.auto_reinvest_percentage,
     err         |-> IF reinvest_amount > c.user_yield THEN "ArithmeticOverflow" ELSE "Ok",
     reinvest_amount |-> reinvest_amount,
     user_payout |-> IF reinvest_amount > c.user_yield THEN 0
                     ELSE c.user_yield - reinvest_amount]

InitReinvest ==
    /\ now = StartTime
    /\ fund_initialized = FALSE
    /\ fund = FundZero
    /\ user_stake = [u \in Users |-> UserStakeZero]
    /\ sentinel = [u \in Users |-> SentinelZero]
    /\ temp_scores = <<>>
    /\ last = Outcome("none", NoArgs, "Ok", 0, <<>>)
    /\ fee_calc = FeeCalcIdle
    /\ score_calc = ScoreCalcIdle
    /\ call_out = NoCallOut
    /\ governance = GovernanceInit
    /\ fund_manager = FundManagerZero
    /\ funds = [i \in FundIndices |-> NoAccount]
    /\ \E y \in 1..MaxUserYield, a \in 0..100 :
         reinvest_calc = [computed |-> FALSE, user_yield |-> y, tier |-> 1,
                          auto_reinvest_percentage |-> a]

ComputeReinvest ==
    /\ ~reinvest_calc.computed
    /\ reinvest_calc' =
          ReinvestCalcDone(reinvest_calc,
              ReinvestAmount(reinvest_calc.user_yield,
                             TotalReinvestment(reinvest_calc.tier,
                                               reinvest_calc.auto_reinvest_percentage)))
    /\ UNCHANGED <<now, fund_initialized, fund, user_stake, sentinel, temp_scores, last,
                   fee_calc, score_calc, call_out, governance,
                   fund_manager, funds>>

NextReinvest == ComputeReinvest

SpecReinvest == InitReinvest /\ [][NextReinvest]_vars

-----------------------------------------------------------------------------
(* finalize_rebalance on the score buffers a TempScores account can hold.  *)

MaxScore == 2

MaxLen == 3

\* the scenario of 31 scored users
MaxRanked == 31

TempScore == [user : Users, score : 0..MaxScore]

\* A buffer of n entries whose scores follow a pattern
Patterned(n, p) ==
    [k \in 1..n |->
        [user  |-> IF k % 2 = 0 THEN "u1" ELSE "u2",
         score |-> CASE p = 0 -> k
                     [] p = 1 -> n - k
                     [] p = 2 -> (k * 7) % 5
                     [] OTHER -> 1]]

Buffers ==
    SeqsUpTo(TempScore, MaxLen)
        \cup {Patterned(n, p) : n \in {10, 11, 30, MaxRanked}, p \in 0..3}

\* The fund right after initialize_fund, and after the first user's deposit
\* of 200 lamports in SOL (fee 1) with the second user as referrer
Funds ==
    {[FundZero EXCEPT !.last_rebalance_timestamp = StartTime],
     [total_deposits |-> 200, user_count |-> 1, early_adopters |-> 1,
      last_rebalance_timestamp |-> StartTime]}

InitFinalize ==
    /\ now = StartTime
    /\ fund_initialized = TRUE
    /\ fund \in Funds
    /\ user_stake =
          [u \in Users |->
              IF fund.user_count = 1 /\ u = "u1"
              THEN StakeAfterDeposit(UserStakeZero, "u2", TRUE, 199)
              ELSE UserStakeZero]
    /\ sentinel =
          [u \in Users |->
              IF fund.user_count = 1 /\ u = "u1"
              THEN SentinelAfterDeposit(SentinelZero, TRUE, TRUE)
              ELSE SentinelZero]
    /\ temp_scores \in Buffers
    /\ last = Outcome("none", NoArgs, "Ok", 0, <<>>)
    /\ fee_calc = FeeCalcIdle
    /\ score_calc = ScoreCalcIdle
    /\ reinvest_calc = ReinvestCalcIdle
    /\ call_out = NoCallOut
    /\ governance = GovernanceInit
    /\ fund_manager = FundManagerZero
    /\ funds = [i \in FundIndices |-> NoAccount]

NextFinalize == finalize_rebalance

SpecFinalize == InitFinalize /\ [][NextFinalize]_vars

-----------------------------------------------------------------------------
(* Properties                                                              *)

\* A step of an instruction (the clock stands still while one runs) whose
\* outcome names op
StepOf(op) == now' = now /\ last'.op = op

RECURSIVE SumDeposits(_)
SumDeposits(S) ==
    IF S = {} THEN 0
    ELSE LET u == CHOOSE x \in S : TRUE
         IN  user_stake[u].deposit_amount + SumDeposits(S \ {u})

\* C1: in every reachable state fund.total_deposits equals the sum of
\* deposit_amount over the UserStake records of the fund.
C1_TotalDepositsIsSumOfStakes ==
    fund.total_deposits = SumDeposits(Users)

\* C2: in every reachable state fund.user_count equals the number of
\* UserStake records with deposit_amount > 0.
C2_UserCountIsNumberOfStakers ==
    fund.user_count = Cardinality({u \in Users : user_stake[u].deposit_amount > 0})

\* C3: for every amount a > 0 the computed fee is floor(a * 50 / 10000), the
\* subtraction does not overflow, net + fee = a and net <= a.
C3_FeeIsFloorOfFiftyBps ==
    fee_calc.computed =>
        /\ fee_calc.err = "Ok"
        /\ fee_calc.fee_amount = BNDivSmall(BNMul(fee_calc.amount, BN(50)), 10000).q
        /\ BNAdd(fee_calc.deposit_amount, fee_calc.fee_amount) = fee_calc.amount
        /\ BNLeq(fee_calc.deposit_amount, fee_calc.amount)

\* C4: a UserStake whose deposit_amount is 0 is in the empty state: tier,
\* stake_timestamp, referral_expiry and auto_reinvest_percentage are 0 and
\* the referrer is unset.
C4_ZeroDepositIsEmptyRecord ==
    \A u \in Users :
        user_stake[u].deposit_amount = 0 =>
            /\ user_stake[u].tier = 0
            /\ user_stake[u].stake_timestamp = 0
            /\ user_stake[u].referrer = PubkeyDefault
            /\ user_stake[u].referral_expiry = 0
            /\ user_stake[u].auto_reinvest_percentage = 0

\* The step sets the deposit_amount of u from a principal p > 0 to 0.
Exits(u) == user_stake[u].deposit_amount > 0 /\ user_stake'[u].deposit_amount = 0

\* C5: an operation that sets a deposit_amount from p to 0 decrements
\* fund.total_deposits by exactly p.
C5_ExitDecrementsTotalDeposits ==
    [][\A u \in Users :
          Exits(u) =>
              fund'.total_deposits = fund.total_deposits - user_stake[u].deposit_amount]_vars

\* C6: an exit pays the user back: the staked amount less the 5% penalty
\* before the commitment has elapsed, or at least the staked amount (amount
\* plus yield) after it.
C6_ExitPaysBack ==
    [][\A u \in Users :
          Exits(u) =>
              \/ last'.payout = user_stake[u].deposit_amount
                                  - (user_stake[u].deposit_amount * 500) \div 10000
              \/ last'.payout >= user_stake[u].deposit_amount]_vars

\* C7: trigger_rebalance succeeds exactly when now >= last_rebalance_timestamp
\* + 2,592,000 and then sets last_rebalance_timestamp = now; otherwise it
\* fails with RebalanceNotDue and changes nothing.  No other instruction than
\* initialize_fund writes last_rebalance_timestamp, so successful triggers are
\* 30 days apart and 30 days after initialize_fund.
C7_TriggerEveryThirtyDays ==
    [][/\ StepOf("trigger_rebalance") =>
            /\ UNCHANGED <<user_stake, sentinel, temp_scores>>
            /\ IF now >= fund.last_rebalance_timestamp + 2592000
               THEN /\ last'.err = "Ok"
                    /\ fund' = [fund EXCEPT !.last_rebalance_timestamp = now]
               ELSE /\ last'.err = "RebalanceNotDue"
                    /\ fund' = fund
       /\ (fund_initialized
             /\ fund'.last_rebalance_timestamp # fund.last_rebalance_timestamp) =>
            /\ StepOf("trigger_rebalance")
            /\ last'.err = "Ok"
            /\ fund'.last_rebalance_timestamp
                 >= fund.last_rebalance_timestamp + 2592000]_vars

\* A trigger that succeeds on the very second it becomes due
C7_Witness ==
    /\ last.op = "trigger_rebalance"
    /\ last.err = "Ok"
    /\ fund.last_rebalance_timestamp = now
    /\ now = StartTime + 2592000

\* C8: rebalance_tiers_batch and finalize_rebalance succeed only inside a
\* cycle opened by a successful trigger_rebalance.  No trigger can have
\* succeeded before 30 days have passed, so none of the two has succeeded
\* by then.
C8_RebalanceOnlyAfterTrigger ==
    now < StartTime + 2592000 =>
        ~(last.op \in {"rebalance_tiers_batch", "finalize_rebalance"} /\ last.err = "Ok")

\* C9: finalize_rebalance gives the entry at rank r (from 0) of the sorted
\* buffer tier 3 if r < 10, tier 2 if 10 <= r < 30 and tier 1 otherwise.
C9_TierByRank ==
    [][StepOf("finalize_rebalance") =>
          /\ Len(last'.events) = Len(temp_scores)
          /\ \A r \in 0..(Len(temp_scores) - 1) :
                last'.events[r + 1].new_tier =
                    (IF r < 10 THEN 3 ELSE IF r >= 10 /\ r < 30 THEN 2 ELSE 1)]_vars

\* 31 scored users: ranks 0-9 got tier 3, ranks 10-29 tier 2, rank 30 tier 1
C9_Witness ==
    /\ last.op = "finalize_rebalance"
    /\ Len(last.events) = 31
    /\ \A r \in 0..9 : last.events[r + 1].new_tier = 3
    /\ \A r \in 10..29 : last.events[r + 1].new_tier = 2
    /\ last.events[31].new_tier = 1

\* The rank (from 1) of entry i of buffer b in the stable descending order:
\* behind every entry of greater score and every earlier entry of equal score
StableRank(b, i) ==
    1 + Cardinality({j \in 1..Len(b) :
                        \/ b[j].score > b[i].score
                        \/ b[j].score = b[i].score /\ j < i})

\* C10: the ranking of finalize_rebalance is a permutation of the buffered
\* entries in non-increasing score order, entries of equal score in their
\* buffer order.
C10_RankingIsStableDescending ==
    [][StepOf("finalize_rebalance") =>
          /\ Len(last'.events) = Len(temp_scores)
          /\ \A i \in 1..Len(temp_scores) :
                /\ last'.events[StableRank(temp_scores, i)].user = temp_scores[i].user
                /\ last'.events[StableRank(temp_scores, i)].score = temp_scores[i].score
          /\ \A k \in 1..(Len(temp_scores) - 1) :
                last'.events[k].score >= last'.events[k + 1].score]_vars

\* A ranking in which two users tie and the one buffered first ranks first,
\* although the other one was buffered before an entry of lower score
C10_Witness ==
    /\ last.op = "finalize_rebalance"
    /\ Len(last.events) = 3
    /\ last.events[1].score = last.events[2].score
    /\ last.events[1].user = "u2"
    /\ last.events[2].user = "u1"
    /\ last.events[3].score < last.events[2].score

\* C11: the batch computes days_staked = floor((now - stake_timestamp) /
\* 86400), base_score = 5 * deposit_amount + 5 * days_staked and
\* score = floor(base_score * (1825 + min(days_staked, 1825)) / 1825).
C11_ScoreIsExactFloor ==
    (score_calc.computed /\ score_calc.err = "Ok"
        /\ BNLeq(BaseScoreExact(score_calc.deposit_amount, score_calc.days_staked), U64Max)) =>
        /\ score_calc.days_staked
             = (score_calc.current_time - score_calc.stake_timestamp) \div 86400
        /\ score_calc.base_score
             = BNAdd(BNMul(BN(5), score_calc.deposit_amount), BN(5 * score_calc.days_staked))
        /\ score_calc.score
             = BNDivSmall(BNMul(score_calc.base_score,
                                BN(1825 + Min(score_calc.days_staked, 1825))),
                          1825).q

\* The score of the stake record of user k at the current time
ScoreOfRecord(k) ==
    Score(user_stake[k].deposit_amount, DaysStaked(now, user_stake[k].stake_timestamp))

\* User k holds the stake and tier badges and is counted in the fund
IsMember(k) == sentinel[k].stake >= 1 /\ sentinel[k].tier >= 1 /\ fund.user_count >= 1

\* C12: a rebalance_tiers_batch call burns the badges of every named user
\* whose score is below 6, zeroes that user's own record (deposit_amount = 0,
\* tier = 0) and decreases fund.user_count by one for that user; when every
\* named user scores 6 or more the records and the count are unchanged.
C12_InactiveUsersAreBurned ==
    [][(StepOf("rebalance_tiers_batch") /\ Len(last'.args.user_keys) <= 25) =>
          /\ \A i \in 1..Len(last'.args.user_keys) :
               LET k == last'.args.user_keys[i]
               IN  (IsMember(k) /\ ScoreOfRecord(k) < 6) =>
                      /\ user_stake'[k].deposit_amount = 0
                      /\ user_stake'[k].tier = 0
                      /\ sentinel'[k].stake = sentinel[k].stake - 1
                      /\ sentinel'[k].tier = sentinel[k].tier - 1
                      /\ fund'.user_count = fund.user_count - 1
          /\ (\A i \in 1..Len(last'.args.user_keys) :
                 ScoreOfRecord(last'.args.user_keys[i]) >= 6) =>
                 (user_stake' = user_stake /\ fund'.user_count = fund.user_count)
      ]_vars

EventsFor(events, k) == {j \in 1..Len(events) : events[j].user = k}

\* C14: batches never drop or overwrite entries already in the score buffer,
\* and a finalize_rebalance that follows a rebalance_tiers_batch call emits
\* exactly one TierRebalanceEvent for every member named in that call whose
\* score has been at least 6 since the deposit.
C14_BatchedUsersAreRankedAtFinalize ==
    [][/\ StepOf("rebalance_tiers_batch") =>
            \A j \in 1..Len(temp_scores) :
                j <= Len(temp_scores') /\ temp_scores'[j] = temp_scores[j]
       /\ (StepOf("finalize_rebalance")
              /\ last.op = "rebalance_tiers_batch"
              /\ Len(last.args.user_keys) <= 25) =>
            \A i \in 1..Len(last.args.user_keys) :
               LET k == last.args.user_keys[i]
               IN  (IsMember(k) /\ Score(user_stake[k].deposit_amount, 0) >= 6) =>
                      /\ Cardinality(EventsFor(last'.events, k)) = 1
                      /\ \A j \in EventsFor(last'.events, k) :
                            last'.events[j].event = "TierRebalanceEvent"
      ]_vars

\* The positions of the buffer b that hold the pair (user, score) of e
PairsIn(b, e) == {j \in 1..Len(b) : b[j].user = e.user /\ b[j].score = e.score}

C17_OneRecordPerKey ==
    [][(StepOf("rebalance_tiers_batch") /\ Len(last'.args.user_keys) <= 25) =>
          /\ \A i \in 1..Len(last'.args.user_keys) :
               LET k == last'.args.user_keys[i]
               IN  (IsMember(k) /\ ScoreOfRecord(k) >= 6) =>
                      /\ i <= Len(temp_scores')
                      /\ temp_scores'[i].user = k
                      /\ temp_scores'[i].score = ScoreOfRecord(k)
          /\ \A u \in Users :
               (\A i \in 1..Len(last'.args.user_keys) : last'.args.user_keys[i] # u) =>
                  user_stake'[u] = user_stake[u]
      ]_vars

\* C19: an arithmetic step that overflows a 64-bit unsigned integer fails
\* with ArithmeticOverflow and no value is a result wrapped modulo 2^64;
\* here for base_score = 5 * deposit_amount + 5 * days_staked.
C19_OverflowFailsWithArithmeticOverflow ==
    score_calc.computed =>
        /\ ~BNLeq(BaseScoreExact(score_calc.deposit_amount, score_calc.days_staked), U64Max)
              => score_calc.err = "ArithmeticOverflow"
        /\ score_calc.err = "Ok"
              => score_calc.base_score
                   = BaseScoreExact(score_calc.deposit_amount, score_calc.days_staked)

\* The errors of the checks deposit makes before the slippage check
EarlierDepositErrors == {"FundFull", "UnauthorizedWallet", "InvalidTierNFT"}

\* The net amount of a deposit: the amount less the fee of 50 basis points
NetAmount(amount) == amount - (amount * 50) \div 10000

\* C20: a deposit in a mint other than SOL with net amount n fails with
\* HighSlippage (or with the error of an earlier check), changing no fund or
\* user state, when the quoted output is below floor(n / 100); when the
\* deposit succeeds the quoted output is at least floor(n / 100) and is the
\* amount credited to the user and to the fund.
C20_SlippageCheckAndCredit ==
    [][(StepOf("deposit")
          /\ last'.args.input_mint # PubkeyDefault
          /\ last'.args.amount > 0) =>
          /\ last'.args.quote < NetAmount(last'.args.amount) \div 100 =>
                /\ last'.err \in {"HighSlippage"} \cup EarlierDepositErrors
                /\ UNCHANGED <<fund, user_stake, sentinel>>
          /\ last'.err = "Ok" =>
                /\ last'.args.quote >= NetAmount(last'.args.amount) \div 100
                /\ user_stake'[last'.args.user].deposit_amount
                      = user_stake[last'.args.user].deposit_amount + last'.args.quote
                /\ fund'.total_deposits = fund.total_deposits + last'.args.quote
      ]_vars

\* The slippage check and the credit to the user alone
SlippageCheckAndUserCredit ==
    [][(StepOf("deposit")
          /\ last'.args.input_mint # PubkeyDefault
          /\ last'.args.amount > 0) =>
          /\ last'.args.quote < NetAmount(last'.args.amount) \div 100 =>
                /\ last'.err \in {"HighSlippage"} \cup EarlierDepositErrors
                /\ UNCHANGED <<fund, user_stake, sentinel>>
          /\ last'.err = "Ok" =>
                /\ last'.args.quote >= NetAmount(last'.args.amount) \div 100
                /\ user_stake'[last'.args.user].deposit_amount
                      = user_stake[last'.args.user].deposit_amount + last'.args.quote
      ]_vars

C22_ClaimIsRecorded ==
    [][(StepOf("claim_yields") /\ last'.err = "Ok" /\ last'.payout > 0) =>
          user_stake'[last'.args.user] # user_stake[last'.args.user]
      ]_vars

\* The yield a claim_yields step takes out of the vault: the payout to the
\* user and the part reinvested, which is added to fund.total_deposits
YieldOfStep == last'.payout + (fund'.total_deposits - fund.total_deposits)

\* C23: the yield of a successful claim is
\* floor(amount * apy_bps * days_staked / (365 * 10000)) for the user's staked
\* amount, the days since the stake and an APY in basis points (0..10000).
C23_YieldIsAmountTimesApyTimesDays ==
    [][(StepOf("claim_yields") /\ last'.err = "Ok") =>
          \E apy_bps \in 0..10000 :
             YieldOfStep
                = (user_stake[last'.args.user].deposit_amount * apy_bps
                     * ((now - user_stake[last'.args.user].stake_timestamp) \div 86400))
                  \div (365 * 10000)
      ]_vars

\* let min_amount = 1_000_000 (lamports)
MIN_STAKE_AMOUNT == 1000000

\* amount > max_amount with max_amount = 1_000_000_000_000 lamports, in
\* millions of lamports
AboveMaxStake(amount) ==
    \/ amount \div 1000000 > 1000000
    \/ (amount \div 1000000 = 1000000 /\ amount % 1000000 > 0)

\* C24: a deposit below the minimum stake amount of 1,000,000 lamports fails
\* with AmountTooSmall and a deposit above the maximum of 1,000,000,000,000
\* lamports fails with AmountTooLarge (or with the error of an earlier
\* check), leaving state unchanged; a deposit between the two, the minimum
\* included, fails with neither.
C24_DepositAmountBounds ==
    [][(StepOf("deposit") /\ last'.args.amount > 0) =>
          /\ last'.args.amount < MIN_STAKE_AMOUNT =>
                /\ last'.err \in {"AmountTooSmall"} \cup EarlierDepositErrors
                /\ UNCHANGED <<fund, user_stake, sentinel, temp_scores>>
          /\ AboveMaxStake(last'.args.amount) =>
                /\ last'.err \in {"AmountTooLarge"} \cup EarlierDepositErrors
                /\ UNCHANGED <<fund, user_stake, sentinel, temp_scores>>
          /\ (last'.args.amount >= MIN_STAKE_AMOUNT /\ ~AboveMaxStake(last'.args.amount)) =>
                last'.err \notin {"AmountTooSmall", "AmountTooLarge"}
      ]_vars

\* In every reachable state the tier stored in a UserStake is 0 or 1
StoredTierIsZeroOrOne == \A u \in Users : user_stake[u].tier \in {0, 1}

\* C27: finalize_rebalance leaves every UserStake unchanged, so the stored
\* tier stays 0 or 1 whatever tier the ranking assigns to the user.
C27_FinalizeLeavesStoredTier ==
    [][last'.op = "finalize_rebalance" =>
          /\ user_stake' = user_stake
          /\ \A u \in Users : user_stake'[u].tier \in {0, 1}
      ]_vars

\* The depositor was ranked into tier 3 and the stored tier is still 1
C27_Witness ==
    /\ last.op = "finalize_rebalance"
    /\ \E j \in 1..Len(last.events) :
          last.events[j].user = "u1" /\ last.events[j].new_tier = 3
    /\ user_stake["u1"].deposit_amount > 0
    /\ user_stake["u1"].tier = 1

\* C28: in every reachable state a user with deposit_amount > 0 has a stored
\* tier in {1, 2, 3}.
C28_StakersHaveValidTier ==
    \A u \in Users :
        user_stake[u].deposit_amount > 0 => user_stake[u].tier \in {1, 2, 3}

\* C29: the yield one claim_yields call takes out of the vault (payout plus
\* reinvested part) never exceeds the fund's total yields, the vault value
\* less fund.total_deposits.
C29_YieldWithinTotalYields ==
    [][(StepOf("claim_yields") /\ last'.err = "Ok") =>
          YieldOfStep <= Max(last'.args.current_pool_value - fund.total_deposits, 0)
      ]_vars

\* C30: for a yield y > 0, reinvest = floor(y * min(p + a / 100, 1)) with a
\* the auto-reinvest percentage and p = 0 for tier 3 and 0.2 otherwise, and
\* payout = y - reinvest.
C30_ReinvestIsExactFloor ==
    reinvest_calc.computed =>
        /\ reinvest_calc.err = "Ok"
        /\ reinvest_calc.reinvest_amount
              = (reinvest_calc.user_yield
                   * Min((IF reinvest_calc.tier = 3 THEN 0 ELSE 20)
                            + reinvest_calc.auto_reinvest_percentage, 100)) \div 100
        /\ reinvest_calc.user_payout
              = reinvest_calc.user_yield - reinvest_calc.reinvest_amount

\* A successful claim_yields adds to fund.total_deposits exactly what it does
\* not pay out of the yield and changes no other field of the fund and no
\* UserStake; a claim whose yield is 0 changes nothing.
ClaimChangesTotalDepositsOnly ==
    [][(StepOf("claim_yields") /\ last'.err = "Ok") =>
          /\ fund' = [fund EXCEPT !.total_deposits = fund'.total_deposits]
          /\ fund'.total_deposits >= fund.total_deposits
          /\ user_stake' = user_stake
          /\ sentinel' = sentinel
          /\ (YieldOfStep = 0 => fund' = fund)
      ]_vars

\* C25: while claim_yields is suspended in a call to an external program,
\* every call back into claim_yields or burn_nft fails with
\* ReentrancyDetected.
C25_ReentryIsDetected ==
    [][(call_out # NoCallOut /\ ~claim_yields_returns) =>
          last'.err = "ReentrancyDetected"
      ]_vars

\* The parameters that admin actions govern
GovernedParameters(g) ==
    <<g.apy_bps, g.deposit_fee_bps, g.is_paused, g.multisig_signers, g.multisig_threshold,
      g.timelock_delay>>

\* C26: a pending admin action has executable_at = proposed_at + timelock
\* delay, and execute_admin_action carries it out only when now >=
\* executable_at and at least threshold distinct signatures are collected:
\* before executable_at it fails with TimelockNotExpired, after it with
\* fewer signatures than the threshold it fails with InsufficientSignatures,
\* and in both cases the governed parameters and the pending action stay as
\* they were.
C26_ExecuteNeedsTimelockAndSignatures ==
    [][(StepOf("execute_admin_action") /\ governance.pending_action # <<>>) =>
          LET p == governance.pending_action[1]
              early == now < p.proposed_at + governance.timelock_delay
              few == Cardinality(p.signatures) < governance.multisig_threshold
          IN  /\ p.executable_at = p.proposed_at + governance.timelock_delay
              /\ early => /\ last'.err = "TimelockNotExpired"
                          /\ GovernedParameters(governance') = GovernedParameters(governance)
                          /\ governance'.pending_action = governance.pending_action
              /\ (~early /\ few) =>
                     /\ last'.err = "InsufficientSignatures"
                     /\ GovernedParameters(governance') = GovernedParameters(governance)
                     /\ governance'.pending_action = governance.pending_action
              /\ last'.err = "Ok" => (~early /\ ~few /\ governance'.pending_action = <<>>)
      ]_vars

\* An action proposed with three signers and threshold 2, executed after the
\* timelock with the proposer's signature only, is refused.
C26_Witness ==
    /\ last.op = "execute_admin_action"
    /\ last.err = "InsufficientSignatures"
    /\ governance.pending_action # <<>>
    /\ Cardinality(governance.multisig_signers) = 3
    /\ governance.multisig_threshold = 2
    /\ Cardinality(governance.pending_action[1].signatures) = 1
    /\ now >= governance.pending_action[1].executable_at

\* Two of three signatures collected, executed before executable_at
GovRefusedEarly ==
    /\ last.op = "execute_admin_action"
    /\ last.err = "TimelockNotExpired"
    /\ governance.pending_action # <<>>
    /\ Cardinality(governance.pending_action[1].signatures) = 2
    /\ governance.multisig_threshold = 2
    /\ now < governance.pending_action[1].executable_at

\* An admin action carried out: the fee it proposed is in force
GovExecuted ==
    /\ last.op = "execute_admin_action"
    /\ last.err = "Ok"
    /\ governance.deposit_fee_bps = 800
    /\ governance.multisig_threshold = 2

\* C31: fund.user_count <= 100 and fund.early_adopters <= 10 in every
\* reachable state, and a first deposit into a fund that has 100 users fails
\* with FundFull and changes nothing.
C31_FundCapacity ==
    /\ fund.user_count <= FUND_CAPACITY
    /\ fund.early_adopters <= EARLY_ADOPTER_SLOTS
    /\ [][/\ fund'.user_count <= FUND_CAPACITY
          /\ fund'.early_adopters <= EARLY_ADOPTER_SLOTS
          /\ (/\ StepOf("deposit")
              /\ fund.user_count = FUND_CAPACITY
              /\ user_stake[last'.args.user].deposit_amount = 0) =>
                 /\ last'.err = "FundFull"
                 /\ last'.payout = 0
                 /\ UNCHANGED <<fund, user_stake, sentinel, temp_scores>>
        ]_vars

\* A first deposit refused by a fund with 100 users and 10 early adopters
C31_Witness ==
    /\ last.op = "deposit"
    /\ last.err = "FundFull"
    /\ fund.user_count = FUND_CAPACITY
    /\ fund.early_adopters = EARLY_ADOPTER_SLOTS
    /\ user_stake[last.args.user].deposit_amount = 0

\* The tenth early-adopter slot taken and a later first deposit made
EarlyAdopterSlotsFilled ==
    /\ last.op = "deposit"
    /\ last.err = "Ok"
    /\ fund.early_adopters = EARLY_ADOPTER_SLOTS
    /\ fund.user_count = EARLY_ADOPTER_SLOTS + 1

\* C32: the FundFull limit applies to new users only: a top-up deposit of a
\* staker who holds the stake and tier badges succeeds when the fund has
\* 100 users, and leaves user_count as it was.
C32_TopUpIntoFullFund ==
    [][(/\ StepOf("deposit")
        /\ fund.user_count = FUND_CAPACITY
        /\ user_stake[last'.args.user].deposit_amount > 0
        /\ sentinel[last'.args.user].stake >= 1
        /\ sentinel[last'.args.user].tier >= 1
        /\ last'.args.amount > 0
        /\ last'.args.input_mint = PubkeyDefault) =>
           /\ last'.err = "Ok"
           /\ fund'.user_count = fund.user_count
      ]_vars

\* C33: a user is treated as a first-time depositor at most once: a deposit
\* that pays the gas rebate or mints a stake or tier badge is the first
\* successful deposit on that UserStake (no deposit has set its
\* stake_timestamp yet), also after burn_nft and after deposits crediting 0.
C33_FirstTimeDepositorOnce ==
    [][(/\ StepOf("deposit")
        /\ last'.err = "Ok"
        /\ \/ last'.payout = REBATE_LAMPORTS
           \/ sentinel'[last'.args.user].stake > sentinel[last'.args.user].stake
           \/ sentinel'[last'.args.user].tier > sentinel[last'.args.user].tier) =>
           user_stake[last'.args.user].stake_timestamp = 0
      ]_vars

\* The accounts of a set_auto_reinvest call pass their checks: the
\* UserStake exists and the stake badge account holds a badge.
SetAutoReinvestAccountsOk(args) ==
    /\ user_stake[args.user].stake_timestamp # 0
    /\ sentinel[args.sentinel_stake].stake >= 1

\* C35: every UserStake has auto_reinvest_percentage <= 100 in every
\* reachable state; set_auto_reinvest with a value above 100 fails, with
\* InvalidPercentage when its accounts are in order, and leaves every record
\* unchanged; a value of 0..100 is stored as given and no other field
\* changes; the first deposit on a UserStake sets it to 20.
C35_AutoReinvestAtMost100 ==
    /\ \A u \in Users : user_stake[u].auto_reinvest_percentage <= 100
    /\ [][/\ \A u \in Users : user_stake'[u].auto_reinvest_percentage <= 100
          /\ StepOf("set_auto_reinvest") =>
               /\ last'.args.auto_reinvest_percentage > 100 =>
                    /\ last'.err # "Ok"
                    /\ SetAutoReinvestAccountsOk(last'.args) =>
                           last'.err = "InvalidPercentage"
                    /\ UNCHANGED <<fund, user_stake, sentinel, temp_scores>>
               /\ last'.args.auto_reinvest_percentage <= 100 =>
                    /\ SetAutoReinvestAccountsOk(last'.args) => last'.err = "Ok"
                    /\ last'.err = "Ok" =>
                         user_stake' =
                           [user_stake EXCEPT
                              ![last'.args.user].auto_reinvest_percentage =
                                  last'.args.auto_reinvest_percentage]
                    /\ UNCHANGED <<fund, sentinel, temp_scores>>
          /\ (/\ StepOf("deposit")
              /\ last'.err = "Ok"
              /\ user_stake[last'.args.user].stake_timestamp = 0) =>
                 user_stake'[last'.args.user].auto_reinvest_percentage =
                     DEFAULT_AUTO_REINVEST
        ]_vars

\* A value above 100 refused on a record that holds the 100 stored earlier
C35_Witness ==
    /\ last.op = "set_auto_reinvest"
    /\ last.err = "InvalidPercentage"
    /\ last.args.auto_reinvest_percentage > 100
    /\ user_stake[last.args.user].auto_reinvest_percentage = 100

\* The fund indices that hold a Fund account
InitialisedFunds == {i \in FundIndices : funds[i] # NoAccount}

\* The funds below fund_count that have room for a user
OpenFunds ==
    {i \in InitialisedFunds : i < fund_manager.fund_count
                              /\ funds[i][1].user_count < FUND_CAPACITY}

\* C34: after any sequence of successful initialize_fund calls, in any order
\* of fund indices, fund_count is the number of initialised funds and every
\* index below fund_count names an initialised fund; find_open_fund returns
\* the smallest index below fund_count whose fund has fewer than 100 users,
\* or fund_count if every fund is full.
C34_FundCountAndOpenFund ==
    /\ fund_manager.fund_count = Cardinality(InitialisedFunds)
    /\ \A i \in 0 .. fund_manager.fund_count - 1 : i \in InitialisedFunds
    /\ find_open_fund(fund_manager, funds) =
         [err |-> "Ok",
          index |-> IF OpenFunds = {} THEN fund_manager.fund_count
                    ELSE CHOOSE i \in OpenFunds : \A j \in OpenFunds : i <= j]

\* Where the funds were initialised in the order of their indices,
\* find_open_fund returns the smallest open fund, or fund_count.
FindOpenFundOnContiguousFunds ==
    InitialisedFunds = 0 .. fund_manager.fund_count - 1 =>
        find_open_fund(fund_manager, funds) =
          [err |-> "Ok",
           index |-> IF OpenFunds = {} THEN fund_manager.fund_count
                     ELSE CHOOSE i \in OpenFunds : \A j \in OpenFunds : i <= j]

\* Fund 0 is full and find_open_fund passes it by
FullFundPassedBy ==
    /\ funds[0] # NoAccount
    /\ funds[0][1].user_count = FUND_CAPACITY
    /\ InitialisedFunds = {0, 1}
    /\ find_open_fund(fund_manager, funds) = [err |-> "Ok", index |-> 1]

====
